---- MODULE Spec2Model ----
(***************************************************************************)
(* Model of agentC.py: the Hyperliquid perp-position monitoring agent.     *)
(*                                                                         *)
(* Text is a sequence of one-character strings.  A float is the record     *)
(* [m |-> mantissa, e |-> decimals], i.e. the decimal m * 10^-e; Python's  *)
(* None is the record None.  An HTML document is a sequence of tables;     *)
(* a table is [th, has_tbody, trs] and a row is [in_tbody, td, role].      *)
(***************************************************************************)
EXTENDS Integers, Sequences, FiniteSets, TLC

\* ------------------------------------------------------------------ bounds
MaxLen == 3            \* longest scraped position-value cell text explored
MaxHeaders == 3        \* longest header row explored by the header resolver

\* ------------------------------------------------------- program constants
MAX_ATTEMPTS == 3
RETRY_PAUSE_SECONDS == 3
EXIT_COLLECT_FAILED == 1     \* main: return after "Failed to collect positions"
EXIT_DELIVERY_FAILED == 1    \* main: return after "Failed to send alert email"
EXIT_OK == 0                 \* main: the final return
TARGET_COINS == { <<"H","Y","P","E">>, <<"B","T","C">>, <<"E","T","H">>,
                  <<"S","O","L">>, <<"X","R","P">> }
FIELDS == << "coin", "leverage", "size", "mark_price", "pnl_roe", "position_value" >>
HEADER_ALIASES ==
  [ coin |-> { <<"c","o","i","n">>, <<"a","s","s","e","t">>,
               <<"m","a","r","k","e","t">>, <<"p","a","i","r">> },
    leverage |-> { <<"l","e","v","e","r","a","g","e">>, <<"l","e","v">> },
    size |-> { <<"s","i","z","e">>,
               <<"p","o","s","i","t","i","o","n"," ","s","i","z","e">>,
               <<"q","t","y">>, <<"q","u","a","n","t","i","t","y">> },
    mark_price |-> { <<"m","a","r","k"," ","p","r","i","c","e">>,
                     <<"m","a","r","k">>, <<"p","r","i","c","e">> },
    pnl_roe |-> { <<"p","n","l"," ","(","r","o","e"," ","%",")">>,
                  <<"p","n","l">>, <<"r","o","e">> },
    position_value |-> { <<"p","o","s","i","t","i","o","n"," ","v","a","l","u","e">>,
                         <<"v","a","l","u","e">>,
                         <<"n","o","t","i","o","n","a","l">> } ]
REQUIRED_COLUMNS == { "coin", "leverage", "size", "mark_price", "pnl_roe" }
SCALE_SUFFIXES == [ K |-> 1000, M |-> 1000000, B |-> 1000000000 ]

None == [ absent |-> TRUE ]
Unavailable == << "U","n","a","v","a","i","l","a","b","l","e" >>
NA == << "N", "/", "A" >>

\* ------------------------------------------------------------ text helpers
LowerCase == << "a","b","c","d","e","f","g","h","i","j","k","l","m",
                "n","o","p","q","r","s","t","u","v","w","x","y","z" >>
UpperCase == << "A","B","C","D","E","F","G","H","I","J","K","L","M",
                "N","O","P","Q","R","S","T","U","V","W","X","Y","Z" >>
Digits == << "0","1","2","3","4","5","6","7","8","9" >>

IndexIn(c, alphabet) ==
  IF \E i \in 1..Len(alphabet) : alphabet[i] = c
  THEN CHOOSE i \in 1..Len(alphabet) : alphabet[i] = c
  ELSE 0

IsDigit(c) == IndexIn(c, Digits) > 0
DigitVal(c) == IndexIn(c, Digits) - 1
IsSpace(c) == c \in { " ", "\t", "\n" }

upper_char(c) == IF IndexIn(c, LowerCase) > 0 THEN UpperCase[IndexIn(c, LowerCase)] ELSE c
lower_char(c) == IF IndexIn(c, UpperCase) > 0 THEN LowerCase[IndexIn(c, UpperCase)] ELSE c

upper(text) == [ i \in 1..Len(text) |-> upper_char(text[i]) ]
lower(text) == [ i \in 1..Len(text) |-> lower_char(text[i]) ]

RECURSIVE lstrip(_)
lstrip(text) ==
  IF text # <<>> /\ IsSpace(Head(text)) THEN lstrip(Tail(text)) ELSE text

RECURSIVE rstrip(_)
rstrip(text) ==
  IF text # <<>> /\ IsSpace(text[Len(text)])
  THEN rstrip(SubSeq(text, 1, Len(text) - 1))
  ELSE text

strip(text) == rstrip(lstrip(text))

\* str.replace(old, "") for a one-character old
remove_char(text, c) == SelectSeq(text, LAMBDA x : x # c)

\* str.replace(old, new) for one-character old and new
replace_char(text, old, new) == [ i \in 1..Len(text) |-> IF text[i] = old THEN new ELSE text[i] ]

\* `needle in hay` for Python strings
Contains(hay, needle) ==
  \E i \in 0..(Len(hay) - Len(needle)) : SubSeq(hay, i + 1, i + Len(needle)) = needle

\* re.sub(r"\s+", " ", text)
RECURSIVE collapse_ws(_)
collapse_ws(text) ==
  IF text = <<>> THEN <<>>
  ELSE IF IsSpace(Head(text))
       THEN << " " >> \o collapse_ws(lstrip(text))
       ELSE << Head(text) >> \o collapse_ws(Tail(text))

normalize_header_text(text) == collapse_ws(lower(strip(text)))

\* cells[index].get_text(separator=" ", strip=True), or "" when the column is
\* unknown or the row is too short.  An Optional[int] is << >> (None) or << i >>;
\* indexes are zero-based.
get_cell_text(cells, index) ==
  IF index = <<>> THEN <<>>
  ELSE IF index[1] >= Len(cells) THEN <<>> ELSE strip(cells[index[1] + 1])

\* ------------------------------------------------------ numeric normalizer
\* Each stage of a function takes the values computed so far as parameters,
\* in the order the code computes them.
RECURSIVE Pow10(_)
Pow10(n) == IF n = 0 THEN 1 ELSE 10 * Pow10(n - 1)

Abs(x) == IF x < 0 THEN -x ELSE x

\* number of leading digit characters of text
RECURSIVE DigitRun(_)
DigitRun(text) ==
  IF text # <<>> /\ IsDigit(Head(text)) THEN 1 + DigitRun(Tail(text)) ELSE 0

\* value of a sequence of digit characters
RECURSIVE DigitsValue(_)
DigitsValue(ds) ==
  IF ds = <<>> THEN 0
  ELSE 10 * DigitsValue(SubSeq(ds, 1, Len(ds) - 1)) + DigitVal(ds[Len(ds)])

\* where a match of -?\d+(?:\.\d+)? can start
match_starts(cleaned) ==
  { i \in 1..Len(cleaned) :
      \/ IsDigit(cleaned[i])
      \/ cleaned[i] = "-" /\ i < Len(cleaned) /\ IsDigit(cleaned[i + 1]) }

match_record(s, d, ie, f) ==
  [ start |-> s, int_from |-> d, int_to |-> ie, frac |-> f,
    end |-> IF f > 0 THEN ie + 1 + f ELSE ie ]

\* the optional group (?:\.\d+) after the integer digits, which end at ie
match_fraction(cleaned, s, d, ie) ==
  match_record(s, d, ie,
               IF ie + 1 <= Len(cleaned) /\ cleaned[ie + 1] = "."
               THEN DigitRun(SubSeq(cleaned, ie + 2, Len(cleaned)))
               ELSE 0)

\* the greedy \d+ from the first digit, at d
match_digits(cleaned, s, d) ==
  match_fraction(cleaned, s, d, d + DigitRun(SubSeq(cleaned, d, Len(cleaned))) - 1)

match_at(cleaned, s) == match_digits(cleaned, s, IF cleaned[s] = "-" THEN s + 1 ELSE s)

leftmost(starts) == CHOOSE i \in starts : \A j \in starts : i <= j

search_from(cleaned, starts) ==
  IF starts = {} THEN None ELSE match_at(cleaned, leftmost(starts))

\* NUMERIC_PATTERN.search(cleaned): the leftmost match, positions one-based and
\* inclusive, or None
numeric_search(cleaned) == search_from(cleaned, match_starts(cleaned))

\* float(match.group())
match_value(cleaned, match) ==
  [ m |-> (IF cleaned[match.start] = "-" THEN -1 ELSE 1)
          * DigitsValue(SubSeq(cleaned, match.int_from, match.int_to)
                        \o SubSeq(cleaned, match.int_to + 2, match.int_to + 1 + match.frac)),
    e |-> match.frac ]

apply_suffix(value, suffix) ==
  IF suffix # <<>> /\ Head(suffix) \in DOMAIN SCALE_SUFFIXES
  THEN [ value EXCEPT !.m = @ * SCALE_SUFFIXES[Head(suffix)] ]
  ELSE value

parse_match(cleaned, match) ==
  IF match = None THEN None
  ELSE apply_suffix(match_value(cleaned, match),
                    strip(SubSeq(cleaned, match.end + 1, Len(cleaned))))

parse_cleaned(cleaned) ==
  IF cleaned = <<>> THEN None ELSE parse_match(cleaned, numeric_search(cleaned))

\* every caller passes a string, so `not text` is text == ""
parse_numeric_value(text) ==
  IF text = <<>> THEN None
  ELSE parse_cleaned(upper(strip(replace_char(remove_char(text, ","), "u2212", "-"))))

\* size_num * mark_price_num
float_mul(a, b) == [ m |-> a.m * b.m, e |-> a.e + b.e ]

RECURSIVE NatText(_)
NatText(n) == IF n < 10 THEN << Digits[n + 1] >> ELSE NatText(n \div 10) \o << Digits[(n % 10) + 1] >>

\* the "," option of the format mini-language: groups of three from the right
RECURSIVE Grouped(_)
Grouped(ds) ==
  IF Len(ds) <= 3 THEN ds
  ELSE Grouped(SubSeq(ds, 1, Len(ds) - 3)) \o << "," >> \o SubSeq(ds, Len(ds) - 2, Len(ds))

RECURSIVE ZeroPad(_, _)
ZeroPad(ds, width) == IF Len(ds) >= width THEN ds ELSE ZeroPad(<< "0" >> \o ds, width)

round_half_even(q, r, unit) ==
  IF 2 * r > unit \/ (2 * r = unit /\ q % 2 = 1) THEN q + 1 ELSE q

\* |value| rounded to `decimals` places, in units of 10^-decimals.  Python
\* rounds the binary double, so an exact decimal tie goes to whichever side the
\* double lies on; here a tie goes to the even neighbour.  No value formatted
\* in the specifications below has more than `decimals` places.
RoundTo(value, decimals) ==
  IF value.e <= decimals THEN Abs(value.m) * Pow10(decimals - value.e)
  ELSE round_half_even(Abs(value.m) \div Pow10(value.e - decimals),
                       Abs(value.m) % Pow10(value.e - decimals),
                       Pow10(value.e - decimals))

\* f"${value:,.{decimals}f}" of a value whose rounded magnitude is `units`
format_units(negative, units, decimals) ==
  << "$" >> \o (IF negative THEN << "-" >> ELSE <<>>)
  \o Grouped(NatText(units \div Pow10(decimals)))
  \o << "." >> \o ZeroPad(NatText(units % Pow10(decimals)), decimals)

format_decimals(value, decimals) ==
  format_units(value.m < 0, RoundTo(value, decimals), decimals)

format_notional(value) ==
  IF value = None THEN Unavailable
  ELSE format_decimals(value, IF Abs(value.m) >= Pow10(value.e) THEN 2 ELSE 6)

\* ---------------------------------------------------------- header resolver
first_field(hits) == IF hits = {} THEN <<>> ELSE << FIELDS[leftmost(hits)] >>

\* mutant of header_key: the fields are tried in the reverse order
header_key_reversed(normalized, header_map) ==
  first_field({ k \in 1..Len(FIELDS) :
                  /\ FIELDS[k] \notin DOMAIN header_map
                  /\ \E alias \in HEADER_ALIASES[FIELDS[k]] : Contains(normalized, alias)
                  /\ \A j \in (k + 1)..Len(FIELDS) :
                       \/ FIELDS[j] \in DOMAIN header_map
                       \/ \A alias \in HEADER_ALIASES[FIELDS[j]] : ~Contains(normalized, alias) })

\* the inner loop of map_headers for one header: << the first field, in the
\* order of HEADER_ALIASES, that is not mapped yet and has an alias in the
\* header >>, or << >> when there is none
header_key(normalized, header_map) ==
  first_field({ k \in 1..Len(FIELDS) :
                  /\ FIELDS[k] \notin DOMAIN header_map
                  /\ \E alias \in HEADER_ALIASES[FIELDS[k]] : Contains(normalized, alias) })

\* header_map[key] = idx, when the header matched a field
with_key(header_map, key, idx) ==
  IF key = <<>> THEN header_map ELSE header_map @@ (key[1] :> idx)

RECURSIVE map_headers_from(_, _, _)
map_headers_from(header_texts, idx, header_map) ==
  IF idx >= Len(header_texts) THEN header_map
  ELSE map_headers_from(
         header_texts, idx + 1,
         with_key(header_map,
                  header_key(normalize_header_text(header_texts[idx + 1]), header_map),
                  idx))

map_headers(header_texts) == map_headers_from(header_texts, 0, <<>>)

\* header_map.get(key): << the index >>, or << >> for None
dict_get(header_map, key) == IF key \in DOMAIN header_map THEN << header_map[key] >> ELSE <<>>

\* ------------------------------------------------------------ row extractor
\* str.replace(pattern, "")
RECURSIVE remove_sub(_, _)
remove_sub(text, pattern) ==
  IF Len(text) < Len(pattern) THEN text
  ELSE IF SubSeq(text, 1, Len(pattern)) = pattern
       THEN remove_sub(SubSeq(text, Len(pattern) + 1, Len(text)), pattern)
       ELSE << Head(text) >> \o remove_sub(Tail(text), pattern)

\* text.split(splitter)[0]
RECURSIVE split_first(_, _)
split_first(text, splitter) ==
  IF text = <<>> \/ Head(text) = splitter THEN <<>>
  ELSE << Head(text) >> \o split_first(Tail(text), splitter)

\* if splitter in text: text = text.split(splitter)[0]
split_if_present(text, splitter) ==
  IF Contains(text, << splitter >>) THEN split_first(text, splitter) ELSE text

IsAlnumUpper(c) == IndexIn(c, UpperCase) > 0 \/ IsDigit(c)

clean_coin_symbol(label) ==
  SelectSeq(
    split_if_present(
      split_if_present(
        split_if_present(remove_sub(strip(upper(label)), << "P", "E", "R", "P" >>), "/"),
        "-"),
      " "),
    IsAlnumUpper)

or_default(text, default) == IF text = <<>> THEN default ELSE text

\* ---------------------------------------------------------- value reconciler
\* the position-value fields of a row are the record [text, num, source]
initial_value == [ text |-> Unavailable, num |-> None, source |-> "unavailable" ]

\* the scraped path
scraped_fields(has_column, scraped_value) ==
  IF has_column /\ scraped_value # <<>>
  THEN [ text |-> scraped_value,
         num |-> parse_numeric_value(scraped_value),
         source |-> "scraped" ]
  ELSE initial_value

computed_fields(product) ==
  [ text |-> format_notional(product), num |-> product, source |-> "computed" ]

\* mutant of reconcile_computed: the product is taken whenever it is computable
reconcile_computed_overwrites(scraped, size_num, mark_price_num) ==
  IF size_num # None /\ mark_price_num # None
  THEN computed_fields(float_mul(size_num, mark_price_num))
  ELSE IF scraped.num # None /\ scraped.text = Unavailable
       THEN [ scraped EXCEPT !.text = format_notional(scraped.num) ]
       ELSE scraped

\* mutant of reconcile_computed: the product is taken only when nothing was scraped
reconcile_computed_scraped_wins(scraped, size_num, mark_price_num) ==
  IF scraped.source # "scraped" /\ size_num # None /\ mark_price_num # None
  THEN computed_fields(float_mul(size_num, mark_price_num))
  ELSE IF scraped.num # None /\ scraped.text = Unavailable
       THEN [ scraped EXCEPT !.text = format_notional(scraped.num) ]
       ELSE scraped

\* the computed path and the defensive re-format
reconcile_computed(scraped, size_num, mark_price_num) ==
  IF scraped.num = None /\ size_num # None /\ mark_price_num # None
  THEN computed_fields(float_mul(size_num, mark_price_num))
  ELSE IF scraped.num # None /\ scraped.text = Unavailable
       THEN [ scraped EXCEPT !.text = format_notional(scraped.num) ]
       ELSE scraped

reconcile_value(cells, header_map, size_num, mark_price_num) ==
  reconcile_computed(
    scraped_fields("position_value" \in DOMAIN header_map,
                   get_cell_text(cells, dict_get(header_map, "position_value"))),
    size_num, mark_price_num)

make_position(cells, header_map, coin_raw, coin_symbol, size_text, mark_price_text, size_num, mark_price_num, value) ==
  [ coin_display |-> strip(coin_raw),
    coin_symbol |-> coin_symbol,
    leverage |-> or_default(get_cell_text(cells, dict_get(header_map, "leverage")), NA),
    size_text |-> size_text,
    size_num |-> size_num,
    mark_price_text |-> mark_price_text,
    mark_price_num |-> mark_price_num,
    pnl_roe |-> or_default(get_cell_text(cells, dict_get(header_map, "pnl_roe")), NA),
    position_value_text |-> value.text,
    position_value_num |-> value.num,
    position_value_source |-> value.source ]

num_position(cells, header_map, coin_raw, coin_symbol, size_text, mark_price_text, size_num, mark_price_num) ==
  make_position(cells, header_map, coin_raw, coin_symbol, size_text, mark_price_text,
                size_num, mark_price_num,
                reconcile_value(cells, header_map, size_num, mark_price_num))

text_position(cells, header_map, coin_raw, coin_symbol, size_text, mark_price_text) ==
  num_position(cells, header_map, coin_raw, coin_symbol, size_text, mark_price_text,
               parse_numeric_value(size_text), parse_numeric_value(mark_price_text))

symbol_position(cells, header_map, coin_raw, coin_symbol) ==
  IF coin_symbol = <<>> THEN None
  ELSE text_position(cells, header_map, coin_raw, coin_symbol,
                     or_default(get_cell_text(cells, dict_get(header_map, "size")), NA),
                     or_default(get_cell_text(cells, dict_get(header_map, "mark_price")), NA))

coin_position(cells, header_map, coin_raw) ==
  IF coin_raw = <<>> THEN None
  ELSE symbol_position(cells, header_map, coin_raw, clean_coin_symbol(coin_raw))

cells_position(cells, header_map) ==
  IF cells = <<>> THEN None
  ELSE coin_position(cells, header_map, get_cell_text(cells, dict_get(header_map, "coin")))

\* one data row: the Position it yields, or None when the row is skipped
row_position(row, header_map) ==
  cells_position(IF row.td # <<>> THEN row.td ELSE row.role, header_map)

\* the rows of one table that are data rows
data_rows(table) ==
  IF table.has_tbody THEN SelectSeq(table.trs, LAMBDA r : r.in_tbody)
  ELSE IF Len(table.trs) > 1 THEN Tail(table.trs) ELSE <<>>

some(p) == IF p = None THEN <<>> ELSE << p >>

RECURSIVE rows_positions(_, _)
rows_positions(rows, header_map) ==
  IF rows = <<>> THEN <<>>
  ELSE some(row_position(Head(rows), header_map)) \o rows_positions(Tail(rows), header_map)

mapped_table_positions(table, header_map) ==
  IF ~(REQUIRED_COLUMNS \subseteq DOMAIN header_map) THEN <<>>
  ELSE rows_positions(data_rows(table), header_map)

table_positions(table) ==
  IF table.th = <<>> THEN <<>>
  ELSE mapped_table_positions(table, map_headers([ i \in 1..Len(table.th) |-> strip(table.th[i]) ]))

RECURSIVE parse_positions_from_html(_)
parse_positions_from_html(html) ==
  IF html = <<>> THEN <<>>
  ELSE table_positions(Head(html)) \o parse_positions_from_html(Tail(html))

\* ----------------------------------------------------------------- notifier
format_position_lines(position) ==
  [ coin |-> position.coin_display,
    symbol |-> position.coin_symbol,
    leverage |-> position.leverage,
    size |-> position.size_text,
    mark_price |-> position.mark_price_text,
    pnl_roe |-> position.pnl_roe,
    position_value |->
      IF position.position_value_source = "computed"
      THEN position.position_value_text \o << " ", "(", "c", "o", "m", "p", "u", "t", "e", "d", ")" >>
      ELSE position.position_value_text ]

build_positive_body(target_positions, all_positions) ==
  [ kind |-> "target coins present",
    listed |-> [ i \in 1..Len(target_positions) |-> format_position_lines(target_positions[i]) ],
    total |-> Len(all_positions) ]

build_negative_body(all_positions) ==
  [ kind |-> "target coins absent",
    listed |-> [ i \in 1..Len(all_positions) |-> format_position_lines(all_positions[i]) ],
    total |-> Len(all_positions) ]

\* mutant of dispatch_email: the branch tests all_positions
dispatch_email_any_position(target_positions, all_positions) ==
  IF all_positions # <<>>
  THEN [ subject |-> "agentC Alert: Target Hyperliquid perp positions detected",
         body |-> build_positive_body(target_positions, all_positions) ]
  ELSE [ subject |-> "agentC Update: Target Hyperliquid perp positions absent",
         body |-> build_negative_body(all_positions) ]

\* the subject and body dispatch_email hands to send_email
dispatch_email(target_positions, all_positions) ==
  IF target_positions # <<>>
  THEN [ subject |-> "agentC Alert: Target Hyperliquid perp positions detected",
         body |-> build_positive_body(target_positions, all_positions) ]
  ELSE [ subject |-> "agentC Update: Target Hyperliquid perp positions absent",
         body |-> build_negative_body(all_positions) ]

\* [pos for pos in positions if pos.get("coin_symbol") in TARGET_COINS]
target_filter(all_positions) ==
  SelectSeq(all_positions, LAMBDA pos : pos.coin_symbol \in TARGET_COINS)

\* ------------------------------------------------------------- sample pages
hCoin == << "C","o","i","n" >>
hLeverage == << "L","e","v","e","r","a","g","e" >>
hSize == << "S","i","z","e" >>
hPositionValue == << "P","o","s","i","t","i","o","n"," ","V","a","l","u","e" >>
hMarkPrice == << "M","a","r","k"," "," ","P","r","i","c","e" >>
hPnl == << "P","N","L"," ","(","R","O","E"," ","%",")" >>
hMargin == << "M","a","r","g","i","n" >>
FullHeader == << hCoin, hLeverage, hSize, hPositionValue, hMarkPrice, hPnl >>

Row(coin, size, value, mark) ==
  [ in_tbody |-> TRUE, role |-> <<>>,
    td |-> << coin, << "2", "x" >>, size, value, mark, << "+", "1", "%" >> >> ]
HeaderRow == [ in_tbody |-> FALSE, td |-> <<>>, role |-> <<>> ]
\* the same row outside a tbody, and with role="cell" elements instead of td
Unbodied(row) == [ row EXCEPT !.in_tbody = FALSE ]
RoleCells(row) == [ row EXCEPT !.td = <<>>, !.role = row.td ]

rowBTC == Row(<< "B","T","C","-","P","E","R","P" >>, << "2" >>, << "$","5",",","0","0","0" >>, << "2","5","0","0" >>)
rowDOGE == Row(<< "d","o","g","e" >>, << "1","0" >>, <<>>, << "0",".","2","5" >>)
rowETH == Row(<< "e","t","h"," ","/"," ","u","s","d" >>, << "x" >>, << "-" >>, << "1","K" >>)
rowBlank == Row(<< " " >>, << "1" >>, << "1" >>, << "1" >>)

PageEmpty == << [ th |-> FullHeader, has_tbody |-> TRUE, trs |-> << HeaderRow >> ] >>
PageOther == << [ th |-> << hCoin, hMargin >>, has_tbody |-> FALSE, trs |-> << HeaderRow, Unbodied(rowBTC) >> ] >>
PageBTC == << [ th |-> FullHeader, has_tbody |-> TRUE, trs |-> << HeaderRow, rowBTC >> ] >>
PageDOGE == << [ th |-> FullHeader, has_tbody |-> FALSE, trs |-> << HeaderRow, Unbodied(rowBlank), Unbodied(RoleCells(rowDOGE)) >> ] >>
PageMixed == << [ th |-> FullHeader, has_tbody |-> TRUE, trs |-> << HeaderRow, RoleCells(rowDOGE), rowETH >> ] >>
Pages == { PageEmpty, PageOther, PageBTC, PageDOGE, PageMixed }

\* the errors the page renderer raises inside one attempt
RenderErrors == { "PlaywrightTimeoutError", "PlaywrightError" }

\* -------------------------------------------------------------------- state
VARIABLES
  pc,            \* where the run is
  attempt,       \* fetch_positions_from_page: the loop variable
  last_error,    \* fetch_positions_from_page: last_error
  table_html,    \* the markup the renderer returned on the successful attempt
  positions,     \* main: positions
  raised,        \* the exception leaving collect_positions_via_playwright, or None
  browser,       \* "unlaunched", "open" or "closed"
  slept,         \* seconds spent in time.sleep
  trace,         \* history: the launches, attempts, pauses, closes and sends so far
  outbox,        \* the messages handed to send_email
  exit_status,   \* main's return value: << >> while running, then << code >>
  header_texts,  \* map_headers: its argument
  header_map     \* map_headers: its result

vars == << pc, attempt, last_error, table_html, positions, raised, browser, slept,
           trace, outbox, exit_status, header_texts, header_map >>

Event(ev, n, detail) == [ ev |-> ev, n |-> n, detail |-> detail ]

Init ==
  /\ pc = "start"
  /\ attempt = 0
  /\ last_error = None
  /\ table_html = <<>>
  /\ positions = <<>>
  /\ raised = None
  /\ browser = "unlaunched"
  /\ slept = 0
  /\ trace = <<>>
  /\ outbox = <<>>
  /\ exit_status = <<>>
  /\ header_texts = <<>>
  /\ header_map = <<>>

\* collect_positions_via_playwright: launch the browser, open context and page,
\* and enter the retry loop of fetch_positions_from_page
Launch ==
  /\ pc = "start"
  /\ browser' = "open"
  /\ trace' = Append(trace, Event("launch", 0, "ok"))
  /\ attempt' = 1
  /\ last_error' = None
  /\ pc' = "attempting"
  /\ UNCHANGED << table_html, positions, raised, slept, outbox, exit_status,
                  header_texts, header_map >>

\* the launch itself raises: nothing was acquired and no attempt is made
LaunchFails ==
  /\ pc = "start"
  /\ raised' = [ kind |-> "PlaywrightError", attempts |-> 0, cause |-> None ]
  /\ trace' = Append(trace, Event("launch", 0, "PlaywrightError"))
  /\ pc' = "main_except"
  /\ UNCHANGED << attempt, last_error, table_html, positions, browser, slept, outbox,
                  exit_status, header_texts, header_map >>

\* an attempt in which goto or wait_for_selector raises
RenderFails ==
  /\ pc = "attempting"
  /\ \E kind \in RenderErrors :
       /\ last_error' = [ kind |-> kind, attempt |-> attempt ]
       /\ trace' = Append(trace, Event("attempt", attempt, kind))
  /\ pc' = "retry_check"
  /\ UNCHANGED << attempt, table_html, positions, raised, browser, slept, outbox,
                  exit_status, header_texts, header_map >>

\* mutant of NoMatch: the second except clause forgets last_error = exc
NoMatch_keeps_last_error ==
  /\ pc = "attempting"
  /\ trace' = Append(trace, Event("attempt", attempt, "AgentCError"))
  /\ pc' = "retry_check"
  /\ UNCHANGED << attempt, last_error, table_html, positions, raised, browser, slept,
                  outbox, exit_status, header_texts, header_map >>

\* an attempt in which the locator counts zero matches
NoMatch ==
  /\ pc = "attempting"
  /\ last_error' = [ kind |-> "AgentCError", attempt |-> attempt ]
  /\ trace' = Append(trace, Event("attempt", attempt, "AgentCError"))
  /\ pc' = "retry_check"
  /\ UNCHANGED << attempt, table_html, positions, raised, browser, slept, outbox,
                  exit_status, header_texts, header_map >>

\* mutant of RenderAndParse: the return is missing and the loop goes on
RenderAndParse_no_return ==
  /\ pc = "attempting"
  /\ \E html \in Pages :
       /\ table_html' = html
       /\ positions' = parse_positions_from_html(html)
  /\ trace' = Append(trace, Event("attempt", attempt, "ok"))
  /\ pc' = "retry_check"
  /\ UNCHANGED << attempt, last_error, raised, browser, slept, outbox, exit_status,
                  header_texts, header_map >>

\* mutant of RenderAndParse: an empty result raises AgentCError like a miss
RenderAndParse_empty_raises ==
  /\ pc = "attempting"
  /\ \E html \in Pages :
       /\ table_html' = html
       /\ positions' = parse_positions_from_html(html)
       /\ IF parse_positions_from_html(html) = <<>>
          THEN /\ last_error' = [ kind |-> "AgentCError", attempt |-> attempt ]
               /\ pc' = "retry_check"
          ELSE /\ last_error' = last_error
               /\ pc' = "finally"
  /\ trace' = Append(trace, Event("attempt", attempt, "ok"))
  /\ UNCHANGED << attempt, raised, browser, slept, outbox, exit_status,
                  header_texts, header_map >>

\* an attempt that renders, finds the table and parses it: the function returns
\* (a network-idle timeout inside it is swallowed and changes nothing)
RenderAndParse ==
  /\ pc = "attempting"
  /\ \E html \in Pages :
       /\ table_html' = html
       /\ positions' = parse_positions_from_html(html)
  /\ trace' = Append(trace, Event("attempt", attempt, "ok"))
  /\ pc' = "finally"
  /\ UNCHANGED << attempt, last_error, raised, browser, slept, outbox, exit_status,
                  header_texts, header_map >>

\* after a failed attempt that is not the last: sleep, then the next attempt
Pause ==
  /\ pc = "retry_check"
  /\ attempt < MAX_ATTEMPTS
  /\ slept' = slept + RETRY_PAUSE_SECONDS
  /\ trace' = Append(trace, Event("pause", attempt, "sleep"))
  /\ attempt' = attempt + 1
  /\ pc' = "attempting"
  /\ UNCHANGED << last_error, table_html, positions, raised, browser, outbox,
                  exit_status, header_texts, header_map >>

\* mutant of Exhaust: the sleep is not guarded by attempt < MAX_ATTEMPTS
Exhaust_sleeps_first ==
  /\ pc = "retry_check"
  /\ ~(attempt < MAX_ATTEMPTS)
  /\ slept' = slept + RETRY_PAUSE_SECONDS
  /\ trace' = Append(trace, Event("pause", attempt, "sleep"))
  /\ raised' = [ kind |-> "AgentCError", attempts |-> MAX_ATTEMPTS, cause |-> last_error ]
  /\ pc' = "finally"
  /\ UNCHANGED << attempt, last_error, table_html, positions, browser, outbox,
                  exit_status, header_texts, header_map >>

\* after the last failed attempt: the loop ends and the fatal error is raised
Exhaust ==
  /\ pc = "retry_check"
  /\ ~(attempt < MAX_ATTEMPTS)
  /\ raised' = [ kind |-> "AgentCError", attempts |-> MAX_ATTEMPTS, cause |-> last_error ]
  /\ pc' = "finally"
  /\ UNCHANGED << attempt, last_error, table_html, positions, browser, slept, trace,
                  outbox, exit_status, header_texts, header_map >>

\* mutant of Close: the closes follow the return instead of sitting in finally
Close_on_success_only ==
  /\ pc = "finally"
  /\ browser' = IF raised = None THEN "closed" ELSE browser
  /\ trace' = IF raised = None THEN Append(trace, Event("close", 0, "ok")) ELSE trace
  /\ pc' = IF raised = None THEN "collected" ELSE "main_except"
  /\ UNCHANGED << attempt, last_error, table_html, positions, raised, slept, outbox,
                  exit_status, header_texts, header_map >>

\* the finally block: context.close(); browser.close()
Close ==
  /\ pc = "finally"
  /\ browser' = "closed"
  /\ trace' = Append(trace, Event("close", 0, "ok"))
  /\ pc' = IF raised = None THEN "collected" ELSE "main_except"
  /\ UNCHANGED << attempt, last_error, table_html, positions, raised, slept, outbox,
                  exit_status, header_texts, header_map >>

\* main: collection raised
CollectFailed ==
  /\ pc = "main_except"
  /\ exit_status' = << EXIT_COLLECT_FAILED >>
  /\ pc' = "done"
  /\ UNCHANGED << attempt, last_error, table_html, positions, raised, browser, slept,
                  trace, outbox, header_texts, header_map >>

\* main: filter the target coins, dispatch the email, which is delivered
DispatchDelivered ==
  /\ pc = "collected"
  /\ outbox' = Append(outbox, dispatch_email(target_filter(positions), positions))
  /\ trace' = Append(trace, Event("send", 0, "ok"))
  /\ exit_status' = << EXIT_OK >>
  /\ pc' = "done"
  /\ UNCHANGED << attempt, last_error, table_html, positions, raised, browser, slept,
                  header_texts, header_map >>

\* main: the same, and send_email raises
DispatchFails ==
  /\ pc = "collected"
  /\ outbox' = Append(outbox, dispatch_email(target_filter(positions), positions))
  /\ trace' = Append(trace, Event("send", 0, "DeliveryError"))
  /\ exit_status' = << EXIT_DELIVERY_FAILED >>
  /\ pc' = "done"
  /\ UNCHANGED << attempt, last_error, table_html, positions, raised, browser, slept,
                  header_texts, header_map >>

Next ==
  \/ Launch
  \/ LaunchFails
  \/ RenderFails
  \/ NoMatch
  \/ RenderAndParse
  \/ Pause
  \/ Exhaust
  \/ Close
  \/ CollectFailed
  \/ DispatchDelivered
  \/ DispatchFails

Spec == Init /\ [][Next]_vars

\* ------------------------------------------------- the header resolver alone
hMarketPrice == << "M","a","r","k","e","t"," ","P","r","i","c","e" >>
hMark == << " ","m","A","R","K"," " >>
hPairValue == << "P","a","i","r"," ","V","a","l","u","e" >>
hPositionSize == << "P","o","s","i","t","i","o","n","\t"," ","S","i","z","e" >>
HeaderSamples == { hCoin, hMarketPrice, hMark, hMarkPrice, hPairValue, hPositionSize,
                   hPositionValue, hMargin }

RECURSIVE SeqsUpTo(_, _)
SeqsUpTo(S, n) ==
  IF n = 0 THEN { <<>> }
  ELSE SeqsUpTo(S, n - 1) \cup { Append(t, x) : t \in SeqsUpTo(S, n - 1), x \in S }

InitHeaders ==
  /\ pc = "map_headers"
  /\ header_texts \in SeqsUpTo(HeaderSamples, MaxHeaders)
  /\ header_map = <<>>
  /\ attempt = 0
  /\ last_error = None
  /\ table_html = <<>>
  /\ positions = <<>>
  /\ raised = None
  /\ browser = "unlaunched"
  /\ slept = 0
  /\ trace = <<>>
  /\ outbox = <<>>
  /\ exit_status = <<>>

MapHeaders ==
  /\ pc = "map_headers"
  /\ header_map' = map_headers(header_texts)
  /\ pc' = "mapped"
  /\ UNCHANGED << attempt, last_error, table_html, positions, raised, browser, slept,
                  trace, outbox, exit_status, header_texts >>

NextHeaders == MapHeaders

SpecHeaders == InitHeaders /\ [][NextHeaders]_vars

\* ------------------------------------------------- the value reconciler alone
ValueChars == { "1", "5", ",", ".", "k", "-", " ", "$" }
SizeSamples == { << "2" >>, << "x" >> }
MarkSamples == { << "1", ".", "5" >>, <<>> }
NoValueHeader == << hCoin, hLeverage, hSize, hMargin, hMarkPrice, hPnl >>

ValuePage(has_column, size, value, mark) ==
  << [ th |-> IF has_column THEN FullHeader ELSE NoValueHeader,
       has_tbody |-> TRUE,
       trs |-> << HeaderRow, Row(<< "B","T","C" >>, size, value, mark) >> ] >>

InitValue ==
  /\ pc = "parse"
  /\ \E has_column \in BOOLEAN, size \in SizeSamples, mark \in MarkSamples,
        value \in SeqsUpTo(ValueChars, MaxLen) :
       table_html = ValuePage(has_column, size, value, mark)
  /\ positions = <<>>
  /\ header_texts = <<>>
  /\ header_map = <<>>
  /\ attempt = 0
  /\ last_error = None
  /\ raised = None
  /\ browser = "unlaunched"
  /\ slept = 0
  /\ trace = <<>>
  /\ outbox = <<>>
  /\ exit_status = <<>>

ParseValue ==
  /\ pc = "parse"
  /\ positions' = parse_positions_from_html(table_html)
  /\ pc' = "parsed"
  /\ UNCHANGED << attempt, last_error, table_html, raised, browser, slept, trace,
                  outbox, exit_status, header_texts, header_map >>

NextValue == ParseValue

SpecValue == InitValue /\ [][NextValue]_vars

\* ------------------------------------------------------------------ history
IsAttempt(e) == e.ev = "attempt"
IsPause(e) == e.ev = "pause"
Attempts == SelectSeq(trace, IsAttempt)
Pauses == SelectSeq(trace, IsPause)
Count(ev, detail) == Cardinality({ i \in 1..Len(trace) : trace[i].ev = ev /\ trace[i].detail = detail })
Succeeded == \E i \in 1..Len(trace) : IsAttempt(trace[i]) /\ trace[i].detail = "ok"
FetchEnded == pc \in { "finally", "collected", "main_except", "done" } /\ Attempts # <<>>
Exhausted == raised # None /\ raised.kind = "AgentCError"

\* ------------------------------------------------------------------- claims
\* C1: for every k in 1..MAX_ATTEMPTS, when attempts 1..k-1 failed with a
\* retryable error and attempt k renders and parses, the run is in
\* 'succeeded' with attempt k's Positions, no error is surfaced to the caller
\* and nothing of the retry loop (attempt or pause) happens after attempt k.
C1_SuccessAtAttemptK ==
  \A i \in 1..Len(trace) :
    (IsAttempt(trace[i]) /\ trace[i].detail = "ok") =>
      /\ trace[i].n \in 1..MAX_ATTEMPTS
      /\ Len(Attempts) = trace[i].n
      /\ \A j \in 1..Len(Attempts) :
           /\ Attempts[j].n = j
           /\ j < trace[i].n => Attempts[j].detail \in RenderErrors \cup { "AgentCError" }
      /\ \A j \in (i + 1)..Len(trace) : ~IsAttempt(trace[j]) /\ ~IsPause(trace[j])
      /\ pc \in { "finally", "collected", "done" }
      /\ raised = None
      /\ positions = parse_positions_from_html(table_html)
      /\ pc # "main_except"
      /\ (pc = "done" /\ Count("send", "ok") = 1) => exit_status = << EXIT_OK >>

C1_Witness ==
  /\ pc = "collected"
  /\ Len(Attempts) = MAX_ATTEMPTS
  /\ Attempts[1].detail = "PlaywrightTimeoutError"
  /\ Attempts[2].detail = "PlaywrightTimeoutError"
  /\ Attempts[MAX_ATTEMPTS].detail = "ok"
  /\ positions # <<>>

\* C2: when every attempt fails with a retryable error, exactly MAX_ATTEMPTS
\* attempts are made, never more, and the run ends by raising the fatal error
\* that reports MAX_ATTEMPTS attempts and wraps the error of the last attempt.
C2_ExhaustedAfterMaxAttempts ==
  /\ Len(Attempts) <= MAX_ATTEMPTS
  /\ (FetchEnded /\ ~Succeeded) => Exhausted
  /\ Exhausted =>
       /\ Len(Attempts) = MAX_ATTEMPTS
       /\ \A j \in 1..MAX_ATTEMPTS : Attempts[j].n = j /\ Attempts[j].detail # "ok"
       /\ raised.attempts = MAX_ATTEMPTS
       /\ raised.cause = [ kind |-> Attempts[MAX_ATTEMPTS].detail, attempt |-> MAX_ATTEMPTS ]

C2_Witness ==
  /\ pc = "done"
  /\ Exhausted
  /\ Attempts[1].detail = "PlaywrightTimeoutError"
  /\ raised.cause = [ kind |-> "AgentCError", attempt |-> MAX_ATTEMPTS ]

\* C5: main maps the two orchestration-level failures to distinct non-zero
\* exit statuses: a run whose collection failed exits with a non-zero status
\* that is not the status of a delivery failure, a run whose delivery failed
\* exits with a non-zero status that is not the status of a collection
\* failure, and a fully successful run exits with 0.
C5_DistinctExitStatuses ==
  pc = "done" =>
    /\ exit_status # <<>>
    /\ Exhausted =>
         exit_status[1] # 0 /\ exit_status[1] # EXIT_DELIVERY_FAILED
    /\ Count("send", "DeliveryError") = 1 =>
         exit_status[1] # 0 /\ exit_status[1] # EXIT_COLLECT_FAILED
    /\ Count("send", "ok") = 1 => exit_status[1] = 0

\* C6: in a run that makes 1..MAX_ATTEMPTS attempts the browser is launched
\* once before the first attempt and closed once after the last, on success
\* and on the fatal failure alike; no attempt runs before the launch or after
\* the close.
C6_ScopedBrowser ==
  /\ Count("launch", "ok") <= 1
  /\ Count("close", "ok") <= 1
  /\ \A i \in 1..Len(trace) :
       (IsAttempt(trace[i]) \/ IsPause(trace[i])) =>
         /\ \E j \in 1..(i - 1) : trace[j].ev = "launch" /\ trace[j].detail = "ok"
         /\ \A j \in 1..i : trace[j].ev # "close"
  /\ pc \in { "attempting", "retry_check", "finally" } => browser = "open"
  /\ (pc \in { "collected", "main_except", "done" } /\ Attempts # <<>>) =>
       /\ Count("launch", "ok") = 1
       /\ Count("close", "ok") = 1
       /\ browser = "closed"

C6_Witness ==
  /\ pc = "main_except"
  /\ Exhausted
  /\ Len(Attempts) = MAX_ATTEMPTS
  /\ browser = "closed"
  /\ Count("close", "ok") = 1

\* C8: an attempt that renders, finds the table and extracts zero Positions
\* ends the run in 'succeeded' with the empty sequence: it does not set the
\* last error, no pause and no attempt follows it, and the fatal failure is
\* not raised.
C8_EmptyResultSucceeds ==
  \A i \in 1..Len(trace) :
    (IsAttempt(trace[i]) /\ trace[i].detail = "ok"
       /\ parse_positions_from_html(table_html) = <<>>) =>
      /\ positions = <<>>
      /\ ~Exhausted
      /\ pc \in { "finally", "collected", "done" }
      /\ last_error # None => last_error.attempt < trace[i].n
      /\ slept = RETRY_PAUSE_SECONDS * (trace[i].n - 1)
      /\ \A j \in (i + 1)..Len(trace) : trace[j].ev \in { "close", "send" }
      /\ pc = "done" => outbox # <<>>

C8_Witness ==
  /\ pc = "collected"
  /\ table_html = PageOther
  /\ positions = <<>>
  /\ Len(Attempts) = 2

\* C9: a pause happens only between two consecutive attempts: it follows the
\* failed attempt i < MAX_ATTEMPTS and is followed by attempt i+1; the first
\* attempt is not preceded by one, nor is a successful attempt or the failed
\* attempt MAX_ATTEMPTS followed by one, so n attempts make n-1 pauses.
C9_PausesBetweenAttempts ==
  /\ \A i \in 1..Len(trace) :
       IsPause(trace[i]) =>
         /\ i > 1
         /\ IsAttempt(trace[i - 1])
         /\ trace[i - 1].detail # "ok"
         /\ trace[i - 1].n = trace[i].n
         /\ trace[i].n < MAX_ATTEMPTS
         /\ IF i < Len(trace)
            THEN IsAttempt(trace[i + 1]) /\ trace[i + 1].n = trace[i].n + 1
            ELSE pc = "attempting" /\ attempt = trace[i].n + 1
  /\ FetchEnded => Len(Pauses) = Len(Attempts) - 1
  /\ slept = RETRY_PAUSE_SECONDS * Len(Pauses)

C9_Witness ==
  /\ pc = "done"
  /\ Exhausted
  /\ Len(Attempts) = MAX_ATTEMPTS
  /\ Len(Pauses) = MAX_ATTEMPTS - 1
  /\ slept = RETRY_PAUSE_SECONDS * (MAX_ATTEMPTS - 1)

\* C10: the notifier is invoked at most once per run and only after a
\* successful collection: no message when collection raised, and after a
\* success exactly one message, the 'target coins present' one exactly when
\* some extracted Position has its coin_symbol among the target coins, else
\* the 'target coins absent' one (also for an empty sequence).
C10_OneMessageAfterSuccess ==
  /\ Len(outbox) <= 1
  /\ Count("send", "ok") + Count("send", "DeliveryError") = Len(outbox)
  /\ outbox # <<>> => pc = "done" /\ raised = None /\ Succeeded
  /\ (pc = "done" /\ raised # None) => outbox = <<>>
  /\ (pc = "done" /\ raised = None) =>
       /\ Len(outbox) = 1
       /\ IF \E i \in 1..Len(positions) : positions[i].coin_symbol \in TARGET_COINS
          THEN /\ outbox[1].subject = "agentC Alert: Target Hyperliquid perp positions detected"
               /\ outbox[1].body.kind = "target coins present"
          ELSE /\ outbox[1].subject = "agentC Update: Target Hyperliquid perp positions absent"
               /\ outbox[1].body.kind = "target coins absent"

C10_Witness ==
  /\ pc = "done"
  /\ Len(outbox) = 1
  /\ Len(positions) = 2
  /\ outbox[1].body.kind = "target coins present"
  /\ Len(outbox[1].body.listed) = 1
  /\ outbox[1].body.total = 2

\* what the row of a value page shows
HasValueColumn == table_html[1].th = FullHeader
ScrapedText == strip(table_html[1].trs[2].td[4])
BothPresent == positions[1].size_num # None /\ positions[1].mark_price_num # None

C4_ParsedScrapedWins ==
  (pc = "parsed" /\ HasValueColumn /\ ScrapedText # <<>>
     /\ parse_numeric_value(ScrapedText) # None) =>
    /\ Len(positions) = 1
    /\ positions[1].position_value_source = "scraped"
    /\ positions[1].position_value_num = parse_numeric_value(ScrapedText)
    /\ positions[1].position_value_text = ScrapedText

C4_Witness ==
  /\ pc = "parsed"
  /\ HasValueColumn
  /\ ScrapedText = << "$", "5", "k" >>
  /\ BothPresent
  /\ positions[1].position_value_source = "scraped"
  /\ positions[1].position_value_num = [ m |-> 5000, e |-> 0 ]

\* whether header idx (zero-based) contains an alias of field f
HeaderMatches(f, idx) ==
  \E alias \in HEADER_ALIASES[f] :
    Contains(normalize_header_text(header_texts[idx + 1]), alias)
FieldSet == { FIELDS[k] : k \in 1..Len(FIELDS) }
Rank(f) == CHOOSE k \in 1..Len(FIELDS) : FIELDS[k] = f
\* header idx was given to a field listed before f
TakenBefore(f, idx) ==
  \E g \in DOMAIN header_map : Rank(g) < Rank(f) /\ header_map[g] = idx

\* C7 as stated: a field with an alias in some header is mapped to the
\* smallest index of such a header, and a field is absent only when no
\* header contains any of its aliases.
C7_FirstMatchPerField ==
  pc = "mapped" =>
    \A f \in FieldSet :
      IF \E idx \in 0..(Len(header_texts) - 1) : HeaderMatches(f, idx)
      THEN /\ f \in DOMAIN header_map
           /\ HeaderMatches(f, header_map[f])
           /\ \A idx \in 0..(Len(header_texts) - 1) :
                HeaderMatches(f, idx) => header_map[f] <= idx
      ELSE f \notin DOMAIN header_map

\* C7 as amended: each header is given to at most one field, the first field
\* of the alias table that is still unmapped and has an alias in it.  A mapped
\* field maps to the smallest index of a header that contains one of its
\* aliases and was not given to a field listed before it; a field is absent
\* exactly when every header containing one of its aliases was given to a
\* field listed before it (in particular when no header contains one).
C7_FirstFreeMatchPerField ==
  pc = "mapped" =>
    /\ DOMAIN header_map \subseteq FieldSet
    /\ \A f, g \in DOMAIN header_map : f # g => header_map[f] # header_map[g]
    /\ \A f \in FieldSet :
         IF f \in DOMAIN header_map
         THEN /\ header_map[f] \in 0..(Len(header_texts) - 1)
              /\ HeaderMatches(f, header_map[f])
              /\ \A idx \in 0..(header_map[f] - 1) :
                   HeaderMatches(f, idx) => TakenBefore(f, idx)
         ELSE \A idx \in 0..(Len(header_texts) - 1) :
                HeaderMatches(f, idx) => TakenBefore(f, idx)

C7_Witness ==
  /\ pc = "mapped"
  /\ header_texts = << hMarketPrice, hMark, hCoin >>
  /\ header_map = [ coin |-> 0, mark_price |-> 1 ]

====
